---------------------------- MODULE Spec2Model ----------------------------
(***************************************************************************)
(* A model of the vuddy code parser (src/codeparser) and its callers.      *)
(*                                                                         *)
(* Text is a sequence of one-character strings, so that prefix tests,      *)
(* splitting and regular-expression matching are computed character by     *)
(* character as the Python code computes them.                             *)
(***************************************************************************)
EXTENDS Integers, Sequences, FiniteSets, TLC

VARIABLES
    lang,       \* the language tag handed to the entry point
    src,        \* capture: the source buffer, one word per token offset
    caps,       \* capture: the nodes the function-definition query captured
    ret,        \* capture: what capture_function_definitions returned
    reg,        \* registry: the lru caches of get_language/get_parser/get_query
    outcome,    \* registry: how the last call of an entry point ended
    chain,      \* scope: the ancestors of the function's name node, innermost first
    scope,      \* scope: what function_scope_cpp returned
    strategy,   \* stripper: "regex" (remove_comments_regex) or "ast"
    code,       \* stripper: the text handed to the first pass
    out,        \* stripper: the result of each pass so far
    fa,         \* equality: the Func whose __eq__ is called
    fx,         \* equality: the operand, a Func or a str
    fz,         \* equality: a third Func
    eqres,      \* equality: the results of the comparisons
    func,       \* abstraction: the leaf nodes of the function, in traversal order
    policy,     \* abstraction: the nine selectors of the call
    run,        \* abstraction: the locals of the running abstract_func_clike call
    calls,      \* abstraction: several calls of abstract_func_clike in progress
    batch,      \* batch extraction: the walk, the output tree and the position of explode
    extraction, \* extraction: the locals of the running extract_ast_functions call
    lru,        \* registry threads: the entries of the three lru caches, as objects
    callers,    \* registry threads: the call stack of each thread
    vuddy       \* run_vuddy: the position of the call, the hidx and result files

varsCapture == <<src, caps, ret>>
varsRegistry == <<reg, outcome>>
varsScope == <<chain, scope>>
varsStrip == <<strategy, code, out>>
varsEq == <<fa, fx, fz, eqres>>
varsAbs == <<func, policy, run, calls>>
varsBatch == <<batch>>
varsExtract == <<extraction>>
varsLru == <<lru, callers>>
varsVuddy == <<vuddy>>
vars == <<lang, varsCapture, varsRegistry, varsScope, varsStrip, varsEq, varsAbs, varsBatch, varsExtract, varsLru, varsVuddy>>

(***************************************************************************)
(* Text helpers.                                                           *)
(***************************************************************************)
RECURSIVE Flatten(_)
Flatten(ss) == IF ss = <<>> THEN <<>> ELSE Head(ss) \o Flatten(Tail(ss))

\* bytes.startswith(prefix)
StartsWith(text, prefix) ==
    /\ Len(prefix) <= Len(text)
    /\ SubSeq(text, 1, Len(prefix)) = prefix

\* bytes.startswith(tuple of prefixes)
StartsWithAny(text, prefixes) == \E p \in prefixes : StartsWith(text, p)

(***************************************************************************)
(* Language tags.  FUNCTION_DEFINITION_CAPTURES, FUNCTION_DECL_CAPTURES    *)
(* and the lang_mapping of get_language all have the keys C, C++, Java.    *)
(***************************************************************************)
SupportedLangs == {"C", "C++", "Java"}
LangTags == SupportedLangs \cup {"Python"}

\* the keys of FUNCTION_DEFINITION_CAPTURES
FUNCTION_DEFINITION_CAPTURES == {"C", "C++", "Java"}

\* raise ParseLangNotSupportError(lang)
ParseLangNotSupportError(l) == [kind |-> "ParseLangNotSupportError", lang |-> l]
\* lang_mapping[lang] on a missing key
KeyError(l) == [kind |-> "KeyError", lang |-> l]
NoCall == [kind |-> "none"]

EmptyRegistry == [language |-> {}, parser |-> {}, query |-> {}]
IdleRegistry == reg = EmptyRegistry /\ outcome = NoCall
IdleScope == chain = <<>> /\ scope = NoCall
IdleStrip == strategy = "regex" /\ code = <<>> /\ out = <<>>
NoFunc == [kind |-> "none"]
IdleEq == fa = NoFunc /\ fx = NoFunc /\ fz = NoFunc /\ eqres = NoCall
IdleAbs == func = <<>> /\ policy = NoCall /\ run = NoCall /\ calls = <<>>
IdleBatch == batch = NoCall
IdleExtract == extraction = NoCall
IdleLru == lru = NoCall /\ callers = <<>>
IdleVuddy == vuddy = NoCall

(***************************************************************************)
(* Function Locator: capture_function_definitions.                         *)
(*                                                                         *)
(* Offsets count tokens of the buffer: src[i+1] is the word at offset i,   *)
(* and the text of the node [start_byte, end_byte) is the words it spans   *)
(* joined by one blank.  Nodes of one tree are pairwise nested or          *)
(* disjoint, and the query returns them in document order.                 *)
(***************************************************************************)
MaxByte == 3
MaxCaps == 3

Words == { <<"i","f">>, <<"e","l","s","e">>, <<"i","n","t">>,
           <<"d","o","u","b","l","e">> }

Spans == {r \in [start_byte : 0..MaxByte, end_byte : 0..MaxByte] :
            r.start_byte < r.end_byte}

Crossing(a, b) ==
    \/ a.start_byte < b.start_byte /\ b.start_byte < a.end_byte
                                   /\ a.end_byte < b.end_byte
    \/ b.start_byte < a.start_byte /\ a.start_byte < b.end_byte
                                   /\ b.end_byte < a.end_byte

TreeLike(S) == \A a \in S : \A b \in S : ~Crossing(a, b)

\* document order: by start, an enclosing node before the nodes inside it
Before(a, b) ==
    \/ a.start_byte < b.start_byte
    \/ a.start_byte = b.start_byte /\ a.end_byte > b.end_byte

RECURSIVE DocOrder(_)
DocOrder(S) ==
    IF S = {} THEN <<>>
    ELSE LET first == CHOOSE a \in S : \A b \in S \ {a} : Before(a, b)
         IN  <<first>> \o DocOrder(S \ {first})

RECURSIVE JoinWords(_)
JoinWords(ws) ==
    IF ws = <<>> THEN <<>>
    ELSE IF Len(ws) = 1 THEN Head(ws)
    ELSE Head(ws) \o <<" ">> \o JoinWords(Tail(ws))

\* node.text
NodeText(buf, n) == JoinWords(SubSeq(buf, n.start_byte + 1, n.end_byte))

\* the tuple handed to startswith in the validation step
ControlKeywords == { <<"e","l","s","e">>, <<"i","f">>, <<"f","o","r">>,
                     <<"w","h","i","l","e">>, <<"d","o">>,
                     <<"s","w","i","t","c","h">>, <<"c","a","s","e">>,
                     <<"d","e","f","a","u","l","t">> }

\* n.start_byte > x.start_byte and n.end_byte < x.end_byte
InsideOf(n, x) == n.start_byte > x.start_byte /\ n.end_byte < x.end_byte

\* "remove node that inside another nodes"
RemoveNested(nodes) ==
    LET Keep(n) == ~ \E i \in DOMAIN nodes : InsideOf(n, nodes[i])
    IN  SelectSeq(nodes, Keep)

Mut_ValidateNoElse(buf, nodes) ==
    LET Keep(n) == ~StartsWithAny(NodeText(buf, n),
                                  ControlKeywords \ {<<"e","l","s","e">>})
    IN  SelectSeq(nodes, Keep)

\* "validate"
Validate(buf, nodes) ==
    LET Keep(n) == ~StartsWithAny(NodeText(buf, n), ControlKeywords)
    IN  SelectSeq(nodes, Keep)

capture_function_definitions(buf, nodes, l) ==
    IF l \notin FUNCTION_DEFINITION_CAPTURES
    THEN ParseLangNotSupportError(l)
    ELSE [kind |-> "ok", nodes |-> Validate(buf, RemoveNested(nodes))]

InitCapture ==
    /\ lang \in LangTags
    /\ src \in [1..MaxByte -> Words]
    /\ \E S \in SUBSET Spans :
         /\ Cardinality(S) <= MaxCaps
         /\ TreeLike(S)
         /\ caps = DocOrder(S)
    /\ ret = NoCall
    /\ IdleRegistry
    /\ IdleScope
    /\ IdleStrip
    /\ IdleEq
    /\ IdleAbs
    /\ IdleBatch
    /\ IdleExtract
    /\ IdleLru
    /\ IdleVuddy

CaptureFunctionDefinitions ==
    /\ ret = NoCall
    /\ ret' = capture_function_definitions(src, caps, lang)
    /\ UNCHANGED <<lang, src, caps, varsRegistry, varsScope, varsStrip, varsEq, varsAbs, varsBatch, varsExtract, varsLru, varsVuddy>>

NextCapture == CaptureFunctionDefinitions

SpecCapture == InitCapture /\ [][NextCapture]_vars

(***************************************************************************)
(* C1: no returned node's byte range lies inside another returned node's   *)
(* range, for every tree-like set of captures, also when the inner range   *)
(* shares its start or its end with the enclosing one.                     *)
(***************************************************************************)
RangeWithin(a, b) == a.start_byte >= b.start_byte /\ a.end_byte <= b.end_byte

C1_OutermostOnly ==
    ret.kind = "ok" =>
        \A i \in DOMAIN ret.nodes : \A j \in DOMAIN ret.nodes :
            i # j => ~RangeWithin(ret.nodes[i], ret.nodes[j])

(***************************************************************************)
(* C2: the text of every returned node starts with none of if, for, while, *)
(* do, switch, else, case, default, for every supported language.          *)
(***************************************************************************)
C2_NoControlKeyword ==
    ret.kind = "ok" =>
        \A i \in DOMAIN ret.nodes :
            \A kw \in ControlKeywords :
                LET text == NodeText(src, ret.nodes[i])
                IN  ~(Len(kw) <= Len(text) /\
                      \A k \in 1..Len(kw) : text[k] = kw[k])

\* a run that captured a keyword-led node and a sound one, and returned
C2_Witness ==
    /\ ret.kind = "ok"
    /\ ret.nodes # <<>>
    /\ Len(ret.nodes) < Len(caps)
    /\ \E i \in DOMAIN caps :
         /\ StartsWithAny(NodeText(src, caps[i]), ControlKeywords)
         /\ ~ \E j \in DOMAIN caps : InsideOf(caps[i], caps[j])

(***************************************************************************)
(* Grammar Registry and the entry points that dispatch on a language tag.  *)
(*                                                                         *)
(* reg holds the keys the three lru_cache wrappers have cached; a call     *)
(* that raises caches nothing.  An operator returns the outcome of the     *)
(* call and the registry after it.                                         *)
(***************************************************************************)
Ok == [kind |-> "ok"]

\* the keys of lang_mapping in get_language
LangMappingKeys == {"C", "C++", "Java"}
\* the keys of FUNCTION_DECL_CAPTURES
FUNCTION_DECL_CAPTURES == {"C", "C++", "Java"}

DefinitionQuery == "FUNCTION_DEFINITION_CAPTURES"
DeclQuery == "FUNCTION_DECL_CAPTURES"

get_language(r, l) ==
    IF l \in r.language THEN [out |-> Ok, reg |-> r]
    ELSE IF l \notin LangMappingKeys THEN [out |-> KeyError(l), reg |-> r]
    ELSE [out |-> Ok, reg |-> [r EXCEPT !.language = @ \cup {l}]]

get_parser(r, l) ==
    IF l \in r.parser THEN [out |-> Ok, reg |-> r]
    ELSE LET g == get_language(r, l)
         IN  IF g.out.kind # "ok" THEN g
             ELSE [out |-> Ok, reg |-> [g.reg EXCEPT !.parser = @ \cup {l}]]

get_query(r, l, q) ==
    IF <<l, q>> \in r.query THEN [out |-> Ok, reg |-> r]
    ELSE LET g == get_language(r, l)
         IN  IF g.out.kind # "ok" THEN g
             ELSE [out |-> Ok, reg |-> [g.reg EXCEPT !.query = @ \cup {<<l, q>>}]]

\* parser = get_parser(lang); tree = parser.parse(s)
parse_ast(r, l) == get_parser(r, l)

\* tokenize: parse_ast, then the leaves of the tree
tokenize(r, l) == parse_ast(r, l)

\* the dispatch of capture_function_definitions: the table, then captures()
dispatch_function_definitions(r, l) ==
    IF l \notin FUNCTION_DEFINITION_CAPTURES
    THEN [out |-> ParseLangNotSupportError(l), reg |-> r]
    ELSE get_query(r, l, DefinitionQuery)

\* the dispatch of capture_function_name
capture_function_name(r, l) ==
    IF l \notin FUNCTION_DECL_CAPTURES
    THEN [out |-> ParseLangNotSupportError(l), reg |-> r]
    ELSE get_query(r, l, DeclQuery)

function_scope(r, l) ==
    IF l = "C" THEN [out |-> Ok, reg |-> r]
    ELSE IF l = "C++" THEN capture_function_name(r, l)
    ELSE IF l = "Java" THEN [out |-> Ok, reg |-> r]
    ELSE [out |-> ParseLangNotSupportError(l), reg |-> r]

\* extract_functions on bytes or str: parse_ast, then extract_ast_functions
extract_functions(r, l) ==
    LET p == parse_ast(r, l)
    IN  IF p.out.kind # "ok" THEN p ELSE dispatch_function_definitions(p.reg, l)

\* remove_comments: the regex for C, C++ and Java, remove_comments_ast otherwise
remove_comments_dispatch(r, l) ==
    IF l \in {"C", "C++", "Java"} THEN [out |-> Ok, reg |-> r]
    ELSE parse_ast(r, l)

SampleSrc == [i \in 1..MaxByte |-> <<"i","n","t">>]
SampleCaps == <<[start_byte |-> 0, end_byte |-> 1]>>

InitRegistry ==
    /\ lang = "C"
    /\ src = SampleSrc
    /\ caps = SampleCaps
    /\ ret = NoCall
    /\ IdleRegistry
    /\ IdleScope
    /\ IdleStrip
    /\ IdleEq
    /\ IdleAbs
    /\ IdleBatch
    /\ IdleExtract
    /\ IdleLru
    /\ IdleVuddy

Called(entry, l, res) ==
    /\ outcome' = [kind |-> res.out.kind, lang |-> l, entry |-> entry]
    /\ reg' = res.reg
    /\ lang' = l
    /\ UNCHANGED <<varsScope, varsStrip, varsEq, varsAbs, varsBatch, varsExtract, varsLru, varsVuddy>>

CallGetParser ==
    /\ \E l \in LangTags : Called("get_parser", l, get_parser(reg, l))
    /\ UNCHANGED varsCapture

CallGetQuery ==
    /\ \E l \in LangTags : \E q \in {DefinitionQuery, DeclQuery} :
          Called("get_query", l, get_query(reg, l, q))
    /\ UNCHANGED varsCapture

CallParseAst ==
    /\ \E l \in LangTags : Called("parse_ast", l, parse_ast(reg, l))
    /\ UNCHANGED varsCapture

CallTokenize ==
    /\ \E l \in LangTags : Called("tokenize", l, tokenize(reg, l))
    /\ UNCHANGED varsCapture

CallExtractFunctions ==
    /\ \E l \in LangTags :
          LET res == extract_functions(reg, l)
          IN  /\ Called("extract_functions", l, res)
              /\ ret' = IF res.out.kind = "ok"
                        THEN capture_function_definitions(src, caps, l)
                        ELSE ret
    /\ UNCHANGED <<src, caps>>

CallRemoveComments ==
    /\ \E l \in LangTags :
          Called("remove_comments", l, remove_comments_dispatch(reg, l))
    /\ UNCHANGED varsCapture

CallCaptureFunctionDefinitions ==
    /\ \E l \in LangTags :
          LET res == dispatch_function_definitions(reg, l)
          IN  /\ Called("capture_function_definitions", l, res)
              /\ ret' = IF res.out.kind = "ok"
                        THEN capture_function_definitions(src, caps, l)
                        ELSE ret
    /\ UNCHANGED <<src, caps>>

CallCaptureFunctionName ==
    /\ \E l \in LangTags :
          Called("capture_function_name", l, capture_function_name(reg, l))
    /\ UNCHANGED varsCapture

CallFunctionScope ==
    /\ \E l \in LangTags : Called("function_scope", l, function_scope(reg, l))
    /\ UNCHANGED varsCapture

NextRegistry ==
    \/ CallGetParser
    \/ CallGetQuery
    \/ CallParseAst
    \/ CallTokenize
    \/ CallExtractFunctions
    \/ CallRemoveComments
    \/ CallCaptureFunctionDefinitions
    \/ CallCaptureFunctionName
    \/ CallFunctionScope

SpecRegistry == InitRegistry /\ [][NextRegistry]_vars

(***************************************************************************)
(* C3: every entry point called with a tag outside {C, C++, Java} fails    *)
(* with ParseLangNotSupportError for that tag, never with another error    *)
(* and never by going on with a default.                                   *)
(***************************************************************************)
C3_UnsupportedTagError ==
    (outcome.kind # "none" /\ outcome.lang \notin {"C", "C++", "Java"})
        => outcome.kind = "ParseLangNotSupportError"

(***************************************************************************)
(* Scope Resolver: function_scope_cpp.                                     *)
(*                                                                         *)
(* chain is ancester(name_node): the parent first, the root last.  The     *)
(* ancestors of a C++ function's name are the qualified identifiers of its *)
(* declarator, the function_declarator, the function_definition, and then  *)
(* for every enclosing namespace or class its body list and the construct. *)
(***************************************************************************)
MaxDepth == 3
MaxQual == 2

Plain(type) == [type |-> type, has_name |-> FALSE, text |-> <<>>]
Named(type, text) == [type |-> type, has_name |-> TRUE, text |-> text]

\* the enclosing constructs a function can sit in; text is the text of the
\* construct's name field (of its scope field for a qualified identifier)
Constructs == { Plain("namespace_definition"),
                Named("namespace_definition", <<"N">>),
                Named("namespace_definition", <<"A", ":", ":", "B">>),
                Named("class_specifier", <<"K">>),
                Named("struct_specifier", <<"S">>) }

Qualifiers == { Named("qualified_identifier", <<"Q">>),
                Named("qualified_identifier", <<"R">>) }

BodyList(c) == IF c.type = "namespace_definition"
               THEN Plain("declaration_list")
               ELSE Plain("field_declaration_list")

SeqsUpTo(S, n) == UNION {[1..k -> S] : k \in 0..n}

\* the ancestors, innermost first, of a name under the qualifiers quals
\* (innermost first) declared inside the constructs outer (innermost first)
AncestorChain(quals, outer) ==
    quals
    \o <<Plain("function_declarator"), Plain("function_definition")>>
    \o Flatten([i \in DOMAIN outer |-> <<BodyList(outer[i]), outer[i]>>])
    \o <<Plain("translation_unit")>>

\* str.split("::")
RECURSIVE SplitQualifier(_)
SplitQualifier(s) ==
    IF \E i \in 1..(Len(s) - 1) : s[i] = ":" /\ s[i + 1] = ":"
    THEN LET i == CHOOSE k \in 1..(Len(s) - 1) :
                    /\ s[k] = ":" /\ s[k + 1] = ":"
                    /\ \A m \in 1..(k - 1) : ~(s[m] = ":" /\ s[m + 1] = ":")
         IN  <<SubSeq(s, 1, i - 1)>> \o SplitQualifier(SubSeq(s, i + 2, Len(s)))
    ELSE <<s>>

\* list.reverse()
Reverse(s) == [i \in 1..Len(s) |-> s[Len(s) + 1 - i]]

\* what one ancestor adds to res in the loop of function_scope_cpp
ScopeOfAncestor(p) ==
    IF p.type = "namespace_definition"
    THEN (IF p.has_name THEN SplitQualifier(p.text) ELSE << <<>> >>)
    ELSE IF p.type = "class_specifier" \/ p.type = "struct_specifier"
    THEN <<p.text>>
    ELSE IF p.type = "qualified_identifier"
    THEN <<p.text>>
    ELSE <<>>

RECURSIVE ScopeLoop(_, _)
ScopeLoop(res, ps) ==
    IF ps = <<>> THEN res
    ELSE ScopeLoop(res \o ScopeOfAncestor(Head(ps)), Tail(ps))

function_scope_cpp(ps) == Reverse(ScopeLoop(<<>>, ps))

InitScope ==
    /\ lang = "C++"
    /\ src = SampleSrc
    /\ caps = SampleCaps
    /\ ret = NoCall
    /\ IdleRegistry
    /\ \E quals \in SeqsUpTo(Qualifiers, MaxQual) :
       \E outer \in SeqsUpTo(Constructs, MaxDepth) :
          chain = AncestorChain(quals, outer)
    /\ scope = NoCall
    /\ IdleStrip
    /\ IdleEq
    /\ IdleAbs
    /\ IdleBatch
    /\ IdleExtract
    /\ IdleLru
    /\ IdleVuddy

FunctionScopeCpp ==
    /\ scope = NoCall
    /\ scope' = [kind |-> "ok", names |-> function_scope_cpp(chain)]
    /\ UNCHANGED <<lang, chain, varsCapture, varsRegistry, varsStrip, varsEq, varsAbs, varsBatch, varsExtract, varsLru, varsVuddy>>

NextScope == FunctionScopeCpp

SpecScope == InitScope /\ [][NextScope]_vars

(***************************************************************************)
(* C4: the scope lists the enclosing qualifiers outermost first: the        *)
(* components of an outer construct come before those of any construct     *)
(* nested inside it, and the components of one namespace name A::B keep    *)
(* their written order.                                                    *)
(***************************************************************************)
\* the names a construct is written with, in written order
WrittenNames(p) ==
    IF p.type = "namespace_definition" /\ ~p.has_name THEN << <<>> >>
    ELSE IF p.type = "namespace_definition" THEN SplitQualifier(p.text)
    ELSE IF p.type \in {"class_specifier", "struct_specifier",
                        "qualified_identifier"} THEN <<p.text>>
    ELSE <<>>

RECURSIVE OutermostFirst(_)
OutermostFirst(ps) ==
    IF ps = <<>> THEN <<>>
    ELSE OutermostFirst(Tail(ps)) \o WrittenNames(Head(ps))

C4_ScopeOutermostFirst ==
    scope.kind = "ok" => scope.names = OutermostFirst(chain)

(***************************************************************************)
(* Comment Stripper, regex strategy: remove_comments_regex.                *)
(*                                                                         *)
(* RX_CLIKE_COMMENT is tried at every position from the left; a Match      *)
(* operator returns the position after the match, or 0 when the            *)
(* alternative does not match there.                                       *)
(***************************************************************************)
NL == "\n"
BS == "\\"
DQ == "\""
SQ == "'"

Min(S) == CHOOSE x \in S : \A y \in S : x <= y

\* `$` under re.MULTILINE: the end of the text, or just before a newline
AtLineEnd(s, j) == j = Len(s) + 1 \/ s[j] = NL

\* //.*?$  (lazy: up to the first line end)
MatchLineComment(s, i) ==
    IF i + 1 <= Len(s) /\ s[i] = "/" /\ s[i + 1] = "/"
    THEN Min({j \in (i + 2)..(Len(s) + 1) : AtLineEnd(s, j)})
    ELSE 0

\* /\*.*?\*/  (lazy, DOTALL: up to the first */ after the opening)
MatchBlockComment(s, i) ==
    IF i + 1 <= Len(s) /\ s[i] = "/" /\ s[i + 1] = "*"
    THEN LET closes == {j \in (i + 2)..(Len(s) - 1) :
                            s[j] = "*" /\ s[j + 1] = "/"}
         IN  IF closes = {} THEN 0 ELSE Min(closes) + 2
    ELSE 0

\* (?:\\.|[^\\q])* from k: where the greedy loop stops.  Every position the
\* loop passes starts an item, which is never the quote, so giving items
\* back cannot make the closing quote match.
RECURSIVE QuotedBody(_, _, _)
QuotedBody(s, k, q) ==
    IF k > Len(s) THEN k
    ELSE IF s[k] = BS THEN (IF k + 1 <= Len(s) THEN QuotedBody(s, k + 2, q) ELSE k)
    ELSE IF s[k] = q THEN k
    ELSE QuotedBody(s, k + 1, q)

\* q(?:\\.|[^\\q])*q
MatchQuoted(s, i, q) ==
    IF s[i] = q
    THEN LET stop == QuotedBody(s, i + 1, q)
         IN  IF stop <= Len(s) /\ s[stop] = q THEN stop + 1 ELSE 0
    ELSE 0

\* the alternatives in the order the pattern lists them
RX_CLIKE_COMMENT(s, i) ==
    IF MatchLineComment(s, i) # 0 THEN MatchLineComment(s, i)
    ELSE IF MatchBlockComment(s, i) # 0 THEN MatchBlockComment(s, i)
    ELSE IF MatchQuoted(s, i, SQ) # 0 THEN MatchQuoted(s, i, SQ)
    ELSE MatchQuoted(s, i, DQ)

Mut_ReplacerEmpty(m) == IF StartsWith(m, <<"/">>) THEN <<>> ELSE m

\* __replacer
Replacer(m) == IF StartsWith(m, <<"/">>) THEN <<" ">> ELSE m

\* re.sub(RX_CLIKE_COMMENT, __replacer, code), from position i on
RECURSIVE ReSub(_, _)
ReSub(s, i) ==
    IF i > Len(s) THEN <<>>
    ELSE LET e == RX_CLIKE_COMMENT(s, i)
         IN  IF e = 0 THEN <<s[i]>> \o ReSub(s, i + 1)
             ELSE Replacer(SubSeq(s, i, e - 1)) \o ReSub(s, e)

remove_comments_regex(s) == ReSub(s, 1)

(***************************************************************************)
(* Comment Stripper, tree strategy: remove_comments_ast.                   *)
(*                                                                         *)
(* The parser is tree-sitter; of its tree the function reads the comment   *)
(* nodes only.  CommentTokens follows the grammars' comment tokens: in C   *)
(* and C++ a line comment runs on over a backslash and the character after *)
(* it, in Java it ends at the newline; a block comment runs to the first   *)
(* star-slash and is no comment when there is none.  The texts parsed hold *)
(* no quote, so no literal can hide a comment.  Offsets are 0-based bytes. *)
(***************************************************************************)
\* the first position at or after k that holds no backslash
RECURSIVE AfterBackslashes(_, _)
AfterBackslashes(s, k) ==
    IF k <= Len(s) /\ s[k] = BS THEN AfterBackslashes(s, k + 1) ELSE k

\* C, C++: (\\+(.|\r?\n)|[^\\\n])* from k, longest match
RECURSIVE LineCommentEndC(_, _)
LineCommentEndC(s, k) ==
    IF k > Len(s) \/ s[k] = NL THEN k
    ELSE IF s[k] = BS
    THEN LET r == AfterBackslashes(s, k)
         IN  IF r <= Len(s) THEN LineCommentEndC(s, r + 1)
             ELSE IF r - k >= 2 THEN r ELSE k
    ELSE LineCommentEndC(s, k + 1)

\* Java: [^\n]*
LineCommentEndJava(s, k) == Min({j \in k..(Len(s) + 1) : AtLineEnd(s, j)})

Leaf(type, first, after) ==
    [type |-> type, start_byte |-> first - 1, end_byte |-> after - 1,
     children |-> <<>>]

\* the children of the root: one node per comment, one per other character
\* that is no white space
RECURSIVE CommentTokens(_, _, _)
CommentTokens(s, i, l) ==
    IF i > Len(s) THEN <<>>
    ELSE IF i + 1 <= Len(s) /\ s[i] = "/" /\ s[i + 1] = "/"
    THEN LET e == IF l = "Java" THEN LineCommentEndJava(s, i + 2)
                  ELSE LineCommentEndC(s, i + 2)
         IN  <<Leaf(IF l = "Java" THEN "line_comment" ELSE "comment", i, e)>>
             \o CommentTokens(s, e, l)
    ELSE IF MatchBlockComment(s, i) # 0
    THEN LET e == MatchBlockComment(s, i)
         IN  <<Leaf(IF l = "Java" THEN "block_comment" ELSE "comment", i, e)>>
             \o CommentTokens(s, e, l)
    ELSE IF s[i] = NL THEN CommentTokens(s, i + 1, l)
    ELSE <<Leaf("token", i, i + 1)>> \o CommentTokens(s, i + 1, l)

\* tree.root_node
RootNode(s, l) ==
    [type |-> IF l = "Java" THEN "program" ELSE "translation_unit",
     start_byte |-> 0, end_byte |-> Len(s),
     children |-> CommentTokens(s, 1, l)]

\* the while loop over nodes_to_expand
RECURSIVE CollectComments(_, _)
CollectComments(nodes_to_expand, comments) ==
    IF nodes_to_expand = <<>> THEN comments
    ELSE LET node == Head(nodes_to_expand)
             found == IF /\ node.type \in {"comment", "line_comment", "block_comment"}
                         /\ node.start_byte < node.end_byte
                      THEN Append(comments, <<node.start_byte, node.end_byte>>)
                      ELSE comments
         IN  CollectComments(node.children \o Tail(nodes_to_expand), found)

\* bytes.count(b"\n")
RECURSIVE CountNewlines(_)
CountNewlines(s) ==
    IF s = <<>> THEN 0
    ELSE (IF Head(s) = NL THEN 1 ELSE 0) + CountNewlines(Tail(s))

Newlines(n) == [i \in 1..n |-> NL]

Mut_SpanNoNewlines(s, start, end) == <<>>

\* b"\n" * code[start:end].count(b"\n")
SpanNewlines(s, start, end) == Newlines(CountNewlines(SubSeq(s, start + 1, end)))

RECURSIVE Mut_RebuildKeepsSpan(_, _, _, _)
Mut_RebuildKeepsSpan(s, comments, okcode, last) ==
    IF comments = <<>> THEN okcode \o SubSeq(s, last + 1, Len(s))
    ELSE LET start == Head(comments)[1]
             end == Head(comments)[2]
         IN  Mut_RebuildKeepsSpan(s, Tail(comments),
                     okcode \o SubSeq(s, last + 1, start)
                            \o SpanNewlines(s, start, end),
                     start)

\* the for loop over comments, and the final okcode + code[last:]
RECURSIVE Rebuild(_, _, _, _)
Rebuild(s, comments, okcode, last) ==
    IF comments = <<>> THEN okcode \o SubSeq(s, last + 1, Len(s))
    ELSE LET start == Head(comments)[1]
             end == Head(comments)[2]
         IN  Rebuild(s, Tail(comments),
                     okcode \o SubSeq(s, last + 1, start)
                            \o SpanNewlines(s, start, end),
                     end)

remove_comments_ast(s, l) ==
    Rebuild(s, CollectComments(<<RootNode(s, l)>>, <<>>), <<>>, 0)

(***************************************************************************)
(* Both strategies, applied once and once more to the result.              *)
(***************************************************************************)
MaxLen == 5

RegexAlphabet == {"/", "*", DQ, SQ, BS, NL, "a"}
TreeAlphabet == {"/", "*", BS, NL, "a"}

InitStrip ==
    /\ src = SampleSrc
    /\ caps = SampleCaps
    /\ ret = NoCall
    /\ IdleRegistry
    /\ IdleScope
    /\ \/ /\ strategy = "regex"
          /\ lang = "C"
          /\ code \in SeqsUpTo(RegexAlphabet, MaxLen)
       \/ /\ strategy = "ast"
          /\ lang \in {"C", "Java"}
          /\ code \in SeqsUpTo(TreeAlphabet, MaxLen)
    /\ out = <<>>
    /\ IdleEq
    /\ IdleAbs
    /\ IdleBatch
    /\ IdleExtract
    /\ IdleLru
    /\ IdleVuddy

\* the text the next pass is handed
Current == IF out = <<>> THEN code ELSE out[Len(out)]

RemoveCommentsRegex ==
    /\ strategy = "regex"
    /\ Len(out) < 2
    /\ out' = Append(out, remove_comments_regex(Current))
    /\ UNCHANGED <<lang, strategy, code, varsCapture, varsRegistry, varsScope, varsEq, varsAbs, varsBatch, varsExtract, varsLru, varsVuddy>>

RemoveCommentsAst ==
    /\ strategy = "ast"
    /\ Len(out) < 2
    /\ out' = Append(out, remove_comments_ast(Current, lang))
    /\ UNCHANGED <<lang, strategy, code, varsCapture, varsRegistry, varsScope, varsEq, varsAbs, varsBatch, varsExtract, varsLru, varsVuddy>>

NextStrip == RemoveCommentsRegex \/ RemoveCommentsAst

SpecStrip == InitStrip /\ [][NextStrip]_vars

(***************************************************************************)
(* C6: the tree strategy copies every byte outside the comment nodes       *)
(* verbatim and in order and puts, for every comment node, as many         *)
(* newlines as it held: the result has the newlines of the input, and      *)
(* every byte kept stands on the line it stood on.  A text that is one     *)
(* line comment and a newline becomes one blank line.                      *)
(***************************************************************************)
\* the 1-based positions covered by a comment node of the tree
CommentPositions(s, l) ==
    LET toks == CommentTokens(s, 1, l)
    IN  {p \in 1..Len(s) :
            \E k \in DOMAIN toks :
                /\ toks[k].type # "token"
                /\ toks[k].start_byte < p /\ p <= toks[k].end_byte}

LineOf(s, p) == CountNewlines(SubSeq(s, 1, p - 1))

\* the bytes of s at the positions of P that are no newline, each with its line
BytesWithLines(s, P) ==
    LET Keep(p) == p \in P /\ s[p] # NL
        kept == SelectSeq([p \in 1..Len(s) |-> p], Keep)
    IN  [k \in DOMAIN kept |-> <<s[kept[k]], LineOf(s, kept[k])>>]

C6_TreeStripKeepsLines ==
    (strategy = "ast" /\ Len(out) >= 1) =>
        /\ CountNewlines(out[1]) = CountNewlines(code)
        /\ BytesWithLines(out[1], 1..Len(out[1]))
             = BytesWithLines(code, (1..Len(code)) \ CommentPositions(code, lang))
        /\ code = <<"/", "/", "a", NL>> => out[1] = <<NL>>

\* a comment that holds a newline was replaced, and a byte outside it kept
C6_Witness ==
    /\ strategy = "ast"
    /\ Len(out) >= 1
    /\ \E p \in CommentPositions(code, lang) : code[p] = NL
    /\ \E p \in (1..Len(code)) \ CommentPositions(code, lang) : code[p] = "a"
    /\ out[1] # code

(***************************************************************************)
(* C7: the regex strategy puts one blank for every // comment and every    *)
(* closed block comment that begins outside a quoted literal, and leaves   *)
(* every other character as it is; a quoted literal is kept whole whatever *)
(* it holds.                                                               *)
(***************************************************************************)
\* position k lies in the literal opened at i and is the second character
\* of a backslash pair
RECURSIVE Escaped(_, _, _)
Escaped(s, i, k) ==
    IF k <= i + 1 THEN FALSE
    ELSE s[k - 1] = BS /\ ~Escaped(s, i, k - 1)

\* the closing quotes of the literal opened at i
Closers(s, i) == {k \in (i + 1)..Len(s) : s[k] = s[i] /\ ~Escaped(s, i, k)}

RECURSIVE Stripped(_, _)
Stripped(s, i) ==
    IF i > Len(s) THEN <<>>
    ELSE IF i < Len(s) /\ s[i] = "/" /\ s[i + 1] = "/"
    THEN LET ends == {j \in (i + 2)..Len(s) : s[j] = NL}
         IN  <<" ">> \o (IF ends = {} THEN <<>> ELSE Stripped(s, Min(ends)))
    ELSE IF /\ i < Len(s) /\ s[i] = "/" /\ s[i + 1] = "*"
            /\ \E j \in (i + 2)..(Len(s) - 1) : s[j] = "*" /\ s[j + 1] = "/"
    THEN <<" ">> \o Stripped(s, 2 + Min({j \in (i + 2)..(Len(s) - 1) :
                                             s[j] = "*" /\ s[j + 1] = "/"}))
    ELSE IF s[i] \in {SQ, DQ} /\ Closers(s, i) # {}
    THEN SubSeq(s, i, Min(Closers(s, i))) \o Stripped(s, Min(Closers(s, i)) + 1)
    ELSE <<s[i]>> \o Stripped(s, i + 1)

C7_RegexStrip ==
    (strategy = "regex" /\ Len(out) >= 1) => out[1] = Stripped(code, 1)

\* a literal that holds a slash was kept and a comment after it replaced
C7_Witness ==
    /\ strategy = "regex"
    /\ Len(out) >= 1
    /\ Len(code) >= 3
    /\ MatchQuoted(code, 1, DQ) > 3
    /\ code[2] = "/"
    /\ StartsWith(out[1], SubSeq(code, 1, MatchQuoted(code, 1, DQ) - 1))
    /\ Len(out[1]) < Len(code)

(***************************************************************************)
(* C8: under both strategies a second pass changes nothing.                *)
(***************************************************************************)
C8_StripIdempotent ==
    Len(out) = 2 => out[2] = out[1]

\* a first pass that removed a comment, and a second pass after it
C8_Witness ==
    /\ Len(out) = 2
    /\ out[1] # code

(***************************************************************************)
(* Function Model: Func.__eq__.                                            *)
(*                                                                         *)
(* A Func is its code (node.text decoded) with its index, language tag and *)
(* metadata; a str operand is its text.                                    *)
(***************************************************************************)
MaxSegs == 2

\* the pieces the compared texts are made of: a token, white space, a line
\* comment with its newline, a block comment, a literal that holds //
Segments == { <<"a">>, <<" ">>, <<"/", "/", "b", NL>>,
              <<"/", "*", "c", "*", "/">>, <<DQ, "/", "/", DQ>> }

Codes(n) == {Flatten(ss) : ss \in SeqsUpTo(Segments, n)}

Func(text, idx, l, meta) ==
    [kind |-> "Func", code |-> text, idx |-> idx, lang |-> l, meta |-> meta]
Str(text) == [kind |-> "str", code |-> text, idx |-> 0, lang |-> "", meta |-> ""]

\* the characters \s matches
Whitespace == {" ", NL, "\t", "\r"}

\* re.sub(r"\s+", "", s)
RECURSIVE RemoveWhitespace(_)
RemoveWhitespace(s) ==
    IF s = <<>> THEN <<>>
    ELSE IF Head(s) \in Whitespace THEN RemoveWhitespace(Tail(s))
    ELSE <<Head(s)>> \o RemoveWhitespace(Tail(s))

Mut_FuncEqSameIdx(self, x) ==
    IF x.kind \in {"Func", "str"}
    THEN /\ RemoveWhitespace(remove_comments_regex(self.code))
              = RemoveWhitespace(remove_comments_regex(x.code))
         /\ x.kind = "Func" => x.idx = self.idx
    ELSE FALSE

\* Func.__eq__(self, x); an x of another type falls back to object identity
Func__eq__(self, x) ==
    IF x.kind \in {"Func", "str"}
    THEN RemoveWhitespace(remove_comments_regex(self.code))
           = RemoveWhitespace(remove_comments_regex(x.code))
    ELSE FALSE

\* l == r as Python evaluates it: the left operand's __eq__, for a str on
\* the left the reflected Func.__eq__ of the right operand
PyEq(l, r) ==
    IF l.kind = "Func" THEN Func__eq__(l, r)
    ELSE IF r.kind = "Func" THEN Func__eq__(r, l)
    ELSE l.code = r.code

InitEq ==
    /\ lang = "C"
    /\ src = SampleSrc
    /\ caps = SampleCaps
    /\ ret = NoCall
    /\ IdleRegistry
    /\ IdleScope
    /\ IdleStrip
    /\ \E text \in Codes(MaxSegs) : fa = Func(text, 0, "C", "m0")
    /\ \E text \in Codes(MaxSegs) :
          fx \in {Func(text, 0, "C", "m0"), Func(text, 1, "C++", "m1"), Str(text)}
    /\ \E text \in Codes(1) : fz = Func(text, 2, "Java", "m2")
    /\ eqres = NoCall
    /\ IdleAbs
    /\ IdleBatch
    /\ IdleExtract
    /\ IdleLru
    /\ IdleVuddy

FuncEq ==
    /\ eqres = NoCall
    /\ eqres' = [kind |-> "ok",
                 ax |-> PyEq(fa, fx), xa |-> PyEq(fx, fa), aa |-> PyEq(fa, fa),
                 xz |-> PyEq(fx, fz), az |-> PyEq(fa, fz)]
    /\ UNCHANGED <<lang, fa, fx, fz, varsCapture, varsRegistry, varsScope, varsStrip, varsAbs, varsBatch, varsExtract, varsLru, varsVuddy>>

NextEq == FuncEq

SpecEq == InitEq /\ [][NextEq]_vars

(***************************************************************************)
(* C5: a Func equals a Func or a str exactly when the two texts are the    *)
(* same once comments are removed and all white space is deleted, whatever *)
(* the index, language tag and metadata; the relation is reflexive,        *)
(* symmetric and transitive.                                               *)
(***************************************************************************)
\* the text without its comments and without white space
Canonical(text) ==
    LET stripped == Stripped(text, 1)
        Solid(c) == c \notin {" ", NL, "\t", "\r"}
    IN  SelectSeq(stripped, Solid)

C5_FuncEquality ==
    eqres.kind = "ok" =>
        /\ eqres.ax = (Canonical(fa.code) = Canonical(fx.code))
        /\ eqres.aa
        /\ eqres.xa = eqres.ax
        /\ (eqres.ax /\ eqres.xz) => eqres.az

\* two Funcs of different index, language and metadata, with different text
\* (a comment and white space in one of them), compared equal
C5_Witness ==
    /\ eqres.kind = "ok"
    /\ eqres.ax
    /\ fx.kind = "Func" /\ fx.idx # fa.idx /\ fx.lang # fa.lang
    /\ fa.code # fx.code
    /\ \E i \in 1..Len(fx.code) : MatchBlockComment(fx.code, i) # 0
    /\ eqres.xz /\ eqres.az /\ fz.code # <<>>

(***************************************************************************)
(* abstract_func_clike: the token abstraction of one function.  The loop   *)
(* visits the leaf nodes of the function in depth-first order; a node is   *)
(* its type, its text and its ancestors, innermost first, each with        *)
(* whether the node below it is that ancestor's "declarator" field.        *)
(***************************************************************************)
MaxStmts == 2

ABST_WITH_NUM == 1
ABST_AS_TYPE == 2
ABST_NON_SYS == 4

\* v & bit, for a mask of one bit
BitAnd(v, bit) == IF (v \div bit) % 2 = 1 THEN bit ELSE 0

Up(type, declarator) == [type |-> type, declarator |-> declarator]
Node(type, text, up) == [type |-> type, text |-> text, up |-> up]

\* void f(int p)
FunctionDefinition == <<Up("function_definition", FALSE)>>
FunctionDeclarator == <<Up("function_declarator", FALSE), Up("function_definition", TRUE)>>
ParameterList == <<Up("parameter_list", FALSE)>> \o FunctionDeclarator
Header ==
    << Node("primitive_type", <<"v", "o", "i", "d">>, FunctionDefinition),
       Node("identifier", <<"f">>,
            <<Up("function_declarator", TRUE), Up("function_definition", TRUE)>>),
       Node("(", <<"(">>, ParameterList),
       Node("primitive_type", <<"i", "n", "t">>,
            <<Up("parameter_declaration", FALSE)>> \o ParameterList),
       Node("identifier", <<"p">>,
            <<Up("parameter_declaration", TRUE)>> \o ParameterList),
       Node(")", <<")">>, ParameterList) >>

\* the statements of the body, each under the ancestors "in"
CompoundStatement(in) == <<Up("compound_statement", FALSE)>> \o in
Body == CompoundStatement(FunctionDefinition)

\* int name;
Declaration(name, in) ==
    LET d == <<Up("declaration", FALSE)>> \o in
    IN  << Node("primitive_type", <<"i", "n", "t">>, d),
           Node("identifier", name, <<Up("declaration", TRUE)>> \o in),
           Node(";", <<";">>, d) >>

\* { int name; }
BlockDeclaration(name, in) ==
    LET c == CompoundStatement(in)
    IN  <<Node("{", <<"{">>, c)>> \o Declaration(name, c) \o <<Node("}", <<"}">>, c)>>

\* const int name = 1;
ConstDeclaration(name, in) ==
    LET d == <<Up("declaration", FALSE)>> \o in
        i == <<Up("init_declarator", FALSE), Up("declaration", TRUE)>> \o in
    IN  << Node("const", <<"c", "o", "n", "s", "t">>, <<Up("type_qualifier", FALSE)>> \o d),
           Node("primitive_type", <<"i", "n", "t">>, d),
           Node("identifier", name,
                <<Up("init_declarator", TRUE), Up("declaration", TRUE)>> \o in),
           Node("=", <<"=">>, i),
           Node("number_literal", <<"1">>, i),
           Node(";", <<";">>, d) >>

\* goto label;
GotoStatement(label, in) ==
    LET g == <<Up("goto_statement", FALSE)>> \o in
    IN  << Node("goto", <<"g", "o", "t", "o">>, g),
           Node("statement_identifier", label, g),
           Node(";", <<";">>, g) >>

\* label: ;
LabeledStatement(label, in) ==
    LET l == <<Up("labeled_statement", FALSE)>> \o in
    IN  << Node("statement_identifier", label, l),
           Node(":", <<":">>, l),
           Node(";", <<";">>, <<Up("expression_statement", FALSE)>> \o l) >>

\* callee(args);
CallStatement(callee, args, in) ==
    LET e == <<Up("expression_statement", FALSE)>> \o in
        c == <<Up("call_expression", FALSE)>> \o e
        a == <<Up("argument_list", FALSE)>> \o c
    IN  << Node("identifier", callee, c), Node("(", <<"(">>, a) >>
        \o [k \in 1..Len(args) |-> Node("identifier", args[k], a)]
        \o << Node(")", <<")">>, a), Node(";", <<";">>, e) >>

\* base->field = value;
FieldAssignment(base, field, value, in) ==
    LET e == <<Up("expression_statement", FALSE)>> \o in
        a == <<Up("assignment_expression", FALSE)>> \o e
        f == <<Up("field_expression", FALSE)>> \o a
    IN  << Node("identifier", base, f),
           Node("->", <<"-", ">">>, f),
           Node("field_identifier", field, f),
           Node("=", <<"=">>, a),
           Node("identifier", value, a),
           Node(";", <<";">>, e) >>

\* /*c*/
Comment(in) == <<Node("comment", <<"/", "*", "c", "*", "/">>, in)>>

Statements ==
    { Declaration(<<"x">>, Body),
      BlockDeclaration(<<"x">>, Body),
      ConstDeclaration(<<"y">>, Body),
      GotoStatement(<<"e", "r", "r">>, Body),
      LabeledStatement(<<"e", "r", "r">>, Body),
      CallStatement(<<"f", "r", "e", "e">>, <<<<"x">>>>, Body),
      CallStatement(<<"p">>, <<>>, Body),
      FieldAssignment(<<"p">>, <<"f", "l", "d">>, <<"y">>, Body),
      Comment(Body) }

\* void f(int p) { statements }
Functions ==
    { Header \o <<Node("{", <<"{">>, Body)>> \o Flatten(b) \o <<Node("}", <<"}">>, Body)>> :
        b \in SeqsUpTo(Statements, MaxStmts) }

\* the node the while loop of is_decl_lvar and is_decl_fparam stops at
RECURSIVE DeclaratorRoot(_, _)
DeclaratorRoot(type, up) ==
    IF up # <<>> /\ Head(up).declarator
    THEN DeclaratorRoot(Head(up).type, Tail(up))
    ELSE type

is_decl_lvar(node) == DeclaratorRoot(node.type, node.up) = "declaration"
is_decl_fparam(node) == DeclaratorRoot(node.type, node.up) = "parameter_declaration"

\* the names of sys_func.txt and std_func.txt
SYS_FUNC == {<<"f", "r", "e", "e">>}

\* the selectors of a call: nothing abstracted, the defaults of the
\* signature, and variations of them
KeepAll ==
    [abstract_fname |-> 0, abstract_lvar |-> 0, abstract_fparam |-> 0,
     abstract_label |-> 0, abstract_gsym |-> 0, abstract_field |-> 0,
     abstract_type |-> 0, abstract_literal |-> 0, abstract_func_call |-> 0]
Defaults ==
    [KeepAll EXCEPT !.abstract_fname = ABST_AS_TYPE,
                    !.abstract_lvar = ABST_WITH_NUM,
                    !.abstract_fparam = ABST_WITH_NUM,
                    !.abstract_label = ABST_AS_TYPE,
                    !.abstract_gsym = ABST_WITH_NUM]
Numbered ==
    [Defaults EXCEPT !.abstract_label = ABST_WITH_NUM,
                     !.abstract_field = ABST_WITH_NUM,
                     !.abstract_type = ABST_WITH_NUM,
                     !.abstract_literal = ABST_WITH_NUM,
                     !.abstract_func_call = ABST_NON_SYS]
Policies ==
    { KeepAll,
      Defaults,
      [KeepAll EXCEPT !.abstract_lvar = ABST_WITH_NUM],
      [KeepAll EXCEPT !.abstract_gsym = ABST_WITH_NUM],
      Numbered,
      [f \in DOMAIN KeepAll |-> ABST_AS_TYPE],
      [Defaults EXCEPT !.abstract_func_call = ABST_WITH_NUM] }

\* a dict as the set of its items
Has(m, k) == \E e \in m : e[1] = k
Get(m, k) == (CHOOSE e \in m : e[1] = k)[2]
Put(m, k, v) == {e \in m : e[1] # k} \cup {<<k, v>>}

\* str(n)
Digits == <<"0", "1", "2", "3", "4", "5", "6", "7", "8", "9">>
RECURSIVE Decimal(_)
Decimal(n) ==
    IF n < 10 THEN <<Digits[n + 1]>>
    ELSE Decimal(n \div 10) \o <<Digits[(n % 10) + 1]>>

ElmTypes ==
    [FPARAM |-> <<"F", "P", "A", "R", "A", "M">>, LVAR |-> <<"L", "V", "A", "R">>, FIELD |-> <<"F", "I", "E", "L", "D">>,
     LABEL |-> <<"L", "A", "B", "E", "L">>, VTYPE |-> <<"V", "T", "Y", "P", "E">>, GSYM |-> <<"G", "S", "Y", "M">>]

\* alloc_number: the placeholder and the counters after it
alloc_number(counts, elm_type) ==
    [res |-> ElmTypes[elm_type] \o Decimal(counts[elm_type]),
     counts |-> [counts EXCEPT ![elm_type] = @ + 1]]

\* counters that are not fresh at the start of a call
Mut_NewRunStaleCounts ==
    [status |-> "running", node |-> 1, output |-> <<>>,
     lvar_map |-> {}, symbol_map |-> {}, label_map |-> {}, field_map |-> {},
     vtype_map |-> {}, counts |-> [t \in DOMAIN ElmTypes |-> 1]]

\* the locals of a call before the loop; node is the next leaf to visit
NewRun ==
    [status |-> "running", node |-> 1, output |-> <<>>,
     lvar_map |-> {}, symbol_map |-> {}, label_map |-> {}, field_map |-> {},
     vtype_map |-> {}, counts |-> [t \in DOMAIN ElmTypes |-> 0]]

TypeKinds == {"sized_type_specifier", "primitive_type", "type_identifier"}
StringKinds == {"concatenated_string", "string_literal", "char_literal"}
DroppedKeywords ==
    {"static", "const", "volatile", "inline", "extern", "register", "typedef"}

\* the node types that contain "comment"
CommentKinds == {"comment", "line_comment", "block_comment"}

\* one iteration of the loop of abstract_func_clike on the given leaf
AbstractNode(st, node, p) ==
    LET text == node.text
        parent == Head(node.up)
        append(tok) == [st EXCEPT !.output = Append(@, tok)]
        \* map[text] = alloc_number(elm_type); output.append(map[text])
        fresh(map, elm_type) ==
            LET a == alloc_number(st.counts, elm_type)
            IN  [st EXCEPT !.counts = a.counts,
                           ![map] = Put(@, text, a.res),
                           !.output = Append(@, a.res)]
        \* if text not in map: map[text] = alloc_number(elm_type)
        \* output.append(map[text])
        reuse(map, elm_type) ==
            IF Has(st[map], text) THEN append(Get(st[map], text))
            ELSE fresh(map, elm_type)
        \* map[text] = tok; output.append(map[text])
        generic(map, tok) ==
            [st EXCEPT ![map] = Put(@, text, tok),
                       !.output = Append(@, tok)]
    IN
    IF parent.type = "function_declarator" /\ parent.declarator THEN
        IF p.abstract_fname = 0 THEN append(text) ELSE append(<<"F", "N", "A", "M", "E">>)
    ELSE IF node.type = "identifier" /\ is_decl_fparam(node) THEN
        IF p.abstract_fparam = 0 THEN append(text)
        ELSE IF p.abstract_fparam = ABST_WITH_NUM THEN fresh("lvar_map", "FPARAM")
        ELSE generic("lvar_map", <<"F", "P", "A", "R", "A", "M">>)
    ELSE IF node.type = "identifier" /\ is_decl_lvar(node) THEN
        IF p.abstract_lvar = 0 THEN append(text)
        ELSE IF p.abstract_lvar = ABST_WITH_NUM THEN fresh("lvar_map", "LVAR")
        ELSE generic("lvar_map", <<"L", "V", "A", "R">>)
    ELSE IF node.type = "field_identifier" THEN
        IF p.abstract_field = 0 THEN append(text)
        ELSE IF p.abstract_lvar = ABST_WITH_NUM THEN reuse("field_map", "FIELD")
        ELSE generic("field_map", <<"F", "I", "E", "L", "D">>)
    ELSE IF parent.type = "labeled_statement" /\ node.type = "statement_identifier" THEN
        IF p.abstract_label = 0 THEN append(text)
        ELSE IF p.abstract_lvar = ABST_WITH_NUM THEN fresh("label_map", "LABEL")
        ELSE append(<<"L", "A", "B", "E", "L">>)
    ELSE IF parent.type = "goto_statement" /\ node.type = "statement_identifier" THEN
        IF p.abstract_label = 0 THEN st
        ELSE IF p.abstract_lvar = ABST_WITH_NUM THEN reuse("label_map", "LABEL")
        ELSE append(<<"L", "A", "B", "E", "L">>)
    ELSE IF node.type \in TypeKinds THEN
        IF p.abstract_type = 0 THEN append(text)
        ELSE IF p.abstract_type = ABST_WITH_NUM THEN reuse("vtype_map", "VTYPE")
        ELSE append(<<"V", "T", "Y", "P", "E">>)
    ELSE IF node.type \in StringKinds \cup {"number_literal"} THEN
        IF p.abstract_literal = 0 THEN append(text)
        ELSE IF node.type \in StringKinds THEN append(<<"S", "T", "R">>)
        ELSE append(<<"N", "U", "M">>)
    ELSE IF parent.type = "call_expression" /\ node.type = "identifier" THEN
        IF p.abstract_func_call = 0 THEN append(text)
        ELSE IF BitAnd(p.abstract_func_call, ABST_WITH_NUM) # 0
        THEN [st EXCEPT !.status = "NotImplementedError"]
        ELSE IF BitAnd(p.abstract_func_call, ABST_NON_SYS) # 0
        THEN append(IF text \in SYS_FUNC THEN text ELSE <<"F", "C", "A", "L", "L">>)
        ELSE append(<<"F", "C", "A", "L", "L">>)
    ELSE IF node.type = "identifier" THEN
        IF Has(st.lvar_map, text) THEN append(Get(st.lvar_map, text))
        ELSE IF p.abstract_gsym # 0 THEN
            IF p.abstract_gsym = ABST_WITH_NUM THEN reuse("symbol_map", "GSYM")
            ELSE append(<<"G", "S", "Y", "M">>)
        ELSE append(text)
    ELSE IF node.type \in CommentKinds \/ node.type \in DroppedKeywords THEN st
    ELSE append(text)

InitAbs ==
    /\ lang = "C"
    /\ src = SampleSrc
    /\ caps = SampleCaps
    /\ ret = NoCall
    /\ IdleRegistry
    /\ IdleScope
    /\ IdleStrip
    /\ IdleEq
    /\ func \in Functions
    /\ policy \in Policies
    /\ run = NoCall
    /\ calls = <<>>
    /\ IdleBatch
    /\ IdleExtract
    /\ IdleLru
    /\ IdleVuddy

\* the call: the locals are created
AbstractFuncClike ==
    /\ run = NoCall
    /\ run' = NewRun
    /\ UNCHANGED <<lang, func, policy, calls, varsCapture, varsRegistry, varsScope, varsStrip, varsEq, varsBatch, varsExtract, varsLru, varsVuddy>>

\* the loop visits the next leaf
AbstractLoop ==
    /\ run # NoCall
    /\ run.status = "running"
    /\ run.node <= Len(func)
    /\ run' = [AbstractNode(run, func[run.node], policy) EXCEPT !.node = @ + 1]
    /\ UNCHANGED <<lang, func, policy, calls, varsCapture, varsRegistry, varsScope, varsStrip, varsEq, varsBatch, varsExtract, varsLru, varsVuddy>>

\* the traversal is exhausted: return output
AbstractReturn ==
    /\ run # NoCall
    /\ run.status = "running"
    /\ run.node > Len(func)
    /\ run' = [run EXCEPT !.status = "returned"]
    /\ UNCHANGED <<lang, func, policy, calls, varsCapture, varsRegistry, varsScope, varsStrip, varsEq, varsBatch, varsExtract, varsLru, varsVuddy>>

NextAbs == AbstractFuncClike \/ AbstractLoop \/ AbstractReturn

SpecAbs == InitAbs /\ [][NextAbs]_vars

\* the locals of the call after the first i leaves, and the place in the
\* output of the token the loop appended for leaf i (0 if it appended none)
RECURSIVE After(_)
After(i) == IF i = 0 THEN NewRun ELSE AbstractNode(After(i - 1), func[i], policy)
Place(i) ==
    IF Len(After(i).output) > Len(After(i - 1).output)
    THEN Len(After(i).output) ELSE 0

(***************************************************************************)
(* C9: with every selector off, the tokens of the output, concatenated,    *)
(* are the source of the function without its comments, white space        *)
(* aside, for every function body.                                         *)
(***************************************************************************)
\* the source of the function without its comments and without white space
StrippedSource ==
    LET NotComment(n) == n.type \notin CommentKinds
        kept == SelectSeq(func, NotComment)
    IN  RemoveWhitespace(Flatten([i \in 1..Len(kept) |-> kept[i].text]))

C9_KeepAllRoundTrip ==
    (run # NoCall /\ run.status = "returned" /\ policy = KeepAll) =>
        RemoveWhitespace(Flatten(run.output)) = StrippedSource

(***************************************************************************)
(* C10: with numbered local variables, every occurrence of a local         *)
(* variable's name (declaration, re-declaration in another block, use) is  *)
(* given the same placeholder, and occurrences of different names are      *)
(* given different placeholders.                                           *)
(***************************************************************************)
\* the leaves that name a local variable: its declarations, and the
\* identifiers of that text from its first declaration on
LvarOccurrences ==
    { i \in 1..Len(func) :
        /\ func[i].type = "identifier"
        /\ Head(func[i].up).type # "call_expression"
        /\ \E d \in 1..i : /\ func[d].type = "identifier"
                           /\ is_decl_lvar(func[d])
                           /\ func[d].text = func[i].text }

C10_NumberedLvarStable ==
    (run # NoCall /\ run.status = "returned" /\ policy.abstract_lvar = ABST_WITH_NUM) =>
        \A i, j \in LvarOccurrences :
            /\ Place(i) # 0
            /\ (func[i].text = func[j].text)
                  <=> (run.output[Place(i)] = run.output[Place(j)])

(***************************************************************************)
(* C11: with numbered labels, fields, types and global symbols, a text of  *)
(* one of these categories is given the next number of its category the    *)
(* first time it is seen and the same placeholder at every later           *)
(* occurrence; a goto and the definition of its label emit the same        *)
(* LABELn in either order.                                                 *)
(***************************************************************************)
\* a declaration of a parameter or of a local variable
IsDeclaration(i) ==
    /\ func[i].type = "identifier"
    /\ is_decl_fparam(func[i]) \/ is_decl_lvar(func[i])

IsFunctionName(i) ==
    Head(func[i].up).type = "function_declarator" /\ Head(func[i].up).declarator

\* the category of leaf i, "" if it is in none of the four
Category(i) ==
    IF IsFunctionName(i) THEN ""
    ELSE IF func[i].type = "statement_identifier" THEN "LABEL"
    ELSE IF func[i].type = "field_identifier" THEN "FIELD"
    ELSE IF func[i].type \in TypeKinds THEN "VTYPE"
    ELSE IF /\ func[i].type = "identifier"
            /\ ~IsDeclaration(i)
            /\ Head(func[i].up).type # "call_expression"
            /\ ~\E d \in 1..i : IsDeclaration(d) /\ func[d].text = func[i].text
         THEN "GSYM"
    ELSE ""

\* the number of distinct texts of the category of leaf i seen before the
\* first occurrence of the text of leaf i
Rank(i) ==
    LET same == {k \in 1..i : Category(k) = Category(i) /\ func[k].text = func[i].text}
        first == CHOOSE k \in same : \A m \in same : k <= m
    IN  Cardinality({func[k].text : k \in {m \in 1..(first - 1) : Category(m) = Category(i)}})

NumberedCategories ==
    /\ policy.abstract_label = ABST_WITH_NUM
    /\ policy.abstract_field = ABST_WITH_NUM
    /\ policy.abstract_type = ABST_WITH_NUM
    /\ policy.abstract_gsym = ABST_WITH_NUM

C11_NumberedFirstSeen ==
    (run # NoCall /\ run.status = "returned" /\ NumberedCategories) =>
        \A i \in 1..Len(func) :
            Category(i) # "" =>
                /\ Place(i) # 0
                /\ run.output[Place(i)] = ElmTypes[Category(i)] \o Decimal(Rank(i))

(***************************************************************************)
(* C12: the tokens emitted for field identifiers and for labels            *)
(* (definitions and goto targets) do not depend on abstract_lvar: a run    *)
(* on the same function with selectors that differ only in abstract_lvar   *)
(* emits the same tokens for these leaves.                                 *)
(***************************************************************************)
\* the locals of a call with selectors p after the first i leaves, and the
\* token it appended for leaf i (<<>> if it appended none)
RECURSIVE AfterWith(_, _)
AfterWith(p, i) ==
    IF i = 0 THEN NewRun ELSE AbstractNode(AfterWith(p, i - 1), func[i], p)
TokenWith(p, i) ==
    LET o == AfterWith(p, i).output
    IN  IF Len(o) > Len(AfterWith(p, i - 1).output) THEN <<o[Len(o)]>> ELSE <<>>

\* the token the run in progress appended for leaf i
Token(i) == IF Place(i) = 0 THEN <<>> ELSE <<run.output[Place(i)]>>

C12_SelectorsIndependent ==
    (run # NoCall /\ run.status = "returned") =>
        \A v \in {0, ABST_WITH_NUM, ABST_AS_TYPE} :
            \A i \in 1..Len(func) :
                func[i].type \in {"field_identifier", "statement_identifier"} =>
                    TokenWith([policy EXCEPT !.abstract_lvar = v], i) = Token(i)

(***************************************************************************)
(* C13: a call whose abstract_func_call contains ABST_WITH_NUM raises and  *)
(* never returns a token sequence, for every function, also one without a  *)
(* call expression.                                                        *)
(***************************************************************************)
C13_NumberedCallRaises ==
    (run # NoCall /\ BitAnd(policy.abstract_func_call, ABST_WITH_NUM) # 0) =>
        run.status # "returned"

(***************************************************************************)
(* Several calls of abstract_func_clike, one per thread, interleaved leaf  *)
(* by leaf.  The function is given as bytes, which are parsed first, or as *)
(* a Node.  output, the maps and counts are locals of each call; the       *)
(* module-level state a call can reach is SYS_FUNC, which it reads, and    *)
(* the cache of get_parser, which parse_ast fills.                         *)
(***************************************************************************)
Threads == {"t1", "t2"}

\* void f(int p) { statement }
CallFunctions ==
    { Header \o <<Node("{", <<"{">>, Body)>> \o s \o <<Node("}", <<"}">>, Body)>> :
        s \in { Declaration(<<"x">>, Body),
                GotoStatement(<<"e", "r", "r">>, Body),
                CallStatement(<<"f", "r", "e", "e">>, <<<<"x">>>>, Body),
                FieldAssignment(<<"p">>, <<"f", "l", "d">>, <<"y">>, Body) } }

CallArguments ==
    [func : CallFunctions, given : {"bytes", "Node"}, policy : {Defaults, Numbered}]

NewCall(a) == [func |-> a.func, given |-> a.given, policy |-> a.policy, run |-> NoCall]

InitCalls ==
    /\ lang = "C"
    /\ src = SampleSrc
    /\ caps = SampleCaps
    /\ ret = NoCall
    /\ IdleRegistry
    /\ IdleScope
    /\ IdleStrip
    /\ IdleEq
    /\ func = <<>> /\ policy = NoCall /\ run = NoCall
    /\ calls \in [Threads -> {NewCall(a) : a \in CallArguments}]
    /\ IdleBatch
    /\ IdleExtract
    /\ IdleLru
    /\ IdleVuddy

\* the entry: bytes are parsed, then the locals are created
CallEnter(t) ==
    /\ calls[t].run = NoCall
    /\ reg' = IF calls[t].given = "bytes" THEN parse_ast(reg, lang).reg ELSE reg
    /\ calls' = [calls EXCEPT ![t].run = NewRun]
    /\ UNCHANGED <<lang, outcome, func, policy, run, varsCapture, varsScope, varsStrip, varsEq, varsBatch, varsExtract, varsLru, varsVuddy>>

\* the loop of the call of thread t visits its next leaf
CallLoop(t) ==
    /\ calls[t].run # NoCall
    /\ calls[t].run.status = "running"
    /\ calls[t].run.node <= Len(calls[t].func)
    /\ LET c == calls[t]
           r == AbstractNode(c.run, c.func[c.run.node], c.policy)
       IN  calls' = [calls EXCEPT ![t].run = [r EXCEPT !.node = c.run.node + 1]]
    /\ UNCHANGED <<lang, func, policy, run, varsCapture, varsRegistry, varsScope, varsStrip, varsEq, varsBatch, varsExtract, varsLru, varsVuddy>>

\* the call of thread t returns output
CallReturn(t) ==
    /\ calls[t].run # NoCall
    /\ calls[t].run.status = "running"
    /\ calls[t].run.node > Len(calls[t].func)
    /\ calls' = [calls EXCEPT ![t].run.status = "returned"]
    /\ UNCHANGED <<lang, func, policy, run, varsCapture, varsRegistry, varsScope, varsStrip, varsEq, varsBatch, varsExtract, varsLru, varsVuddy>>

\* thread t has its result and is about to call again
CallAgain(t) ==
    /\ calls[t].run # NoCall
    /\ calls[t].run.status = "returned"
    /\ \E a \in CallArguments : calls' = [calls EXCEPT ![t] = NewCall(a)]
    /\ UNCHANGED <<lang, func, policy, run, varsCapture, varsRegistry, varsScope, varsStrip, varsEq, varsBatch, varsExtract, varsLru, varsVuddy>>

NextCalls ==
    \E t \in Threads : CallEnter(t) \/ CallLoop(t) \/ CallReturn(t) \/ CallAgain(t)

SpecCalls == InitCalls /\ [][NextCalls]_vars

\* the locals of a call on function f with selectors p, run alone, after i leaves
RECURSIVE Alone(_, _, _)
Alone(f, p, i) == IF i = 0 THEN NewRun ELSE AbstractNode(Alone(f, p, i - 1), f[i], p)

\* every call in progress has the output, maps and counters of the same
\* call run alone
RunsAlone ==
    \A t \in Threads :
        calls[t].run # NoCall =>
            LET r == calls[t].run
                a == Alone(calls[t].func, calls[t].policy, r.node - 1)
            IN  [r EXCEPT !.status = "running"] = [a EXCEPT !.node = r.node]

\* a category that has allocated a number has emitted its number 0
NumberingFromZero ==
    \A t \in Threads :
        calls[t].run # NoCall =>
            \A e \in DOMAIN ElmTypes :
                calls[t].run.counts[e] > 0 =>
                    \E k \in DOMAIN calls[t].run.output :
                        calls[t].run.output[k] = ElmTypes[e] \o Decimal(0)

\* a step that changes the registry is the entry of a call given bytes,
\* and it adds the language and the parser of lang to the caches
OnlyParserCache ==
    reg' # reg =>
        /\ \E t \in Threads : /\ calls[t].run = NoCall
                              /\ calls[t].given = "bytes"
                              /\ calls'[t].run = NewRun
        /\ reg'.language = reg.language \cup {lang}
        /\ reg'.parser = reg.parser \cup {lang}
        /\ reg'.query = reg.query

(***************************************************************************)
(* C14, as stated: after any sequence or interleaving of calls the output  *)
(* of each is the output of the call run alone, numbering starts at 0 in   *)
(* each, and no step of a call changes module-level state.                 *)
(***************************************************************************)
C14_CallsLocal ==
    /\ [](RunsAlone /\ NumberingFromZero)
    /\ [][reg' = reg]_vars

(***************************************************************************)
(* C14, amended: the same, except that a call given bytes fills the        *)
(* caches of get_language and get_parser for its language; nothing else    *)
(* at module level changes.                                                *)
(***************************************************************************)
C14_CallsLocalButParserCache ==
    /\ [](RunsAlone /\ NumberingFromZero)
    /\ [][OnlyParserCache]_vars

\* both calls are in their loops, each has numbered a parameter and a
\* further placeholder, and one was given bytes
C14_Witness ==
    /\ \A t \in Threads :
          /\ calls[t].run # NoCall
          /\ calls[t].run.status = "running"
          /\ calls[t].run.counts["FPARAM"] = 1
          /\ \E e \in DOMAIN ElmTypes : e # "FPARAM" /\ calls[t].run.counts[e] = 1
    /\ calls["t1"].func # calls["t2"].func
    /\ "C" \in reg.parser

(***************************************************************************)
(* explode: the batch extraction of a source tree.  The walk yields the    *)
(* files of the tree; each source file is read and its functions are       *)
(* extracted under a timeout and written below output/rel_path, one file   *)
(* per function, named by Func.start_line and the extension of the source. *)
(***************************************************************************)
MaxFuncs == 2
MaxRow == 1

\* os.path.splitext(path)[1]: from the last dot of the last component,
\* unless only dots precede it there
SplitExt(path) ==
    LET slashes == {i \in 1..Len(path) : path[i] = "/"}
        base == IF slashes = {} THEN 1
                ELSE 1 + CHOOSE i \in slashes : \A j \in slashes : j <= i
        dots == {i \in base..Len(path) : path[i] = "."}
        last == CHOOSE i \in dots : \A j \in dots : j <= i
    IN  IF dots = {} THEN <<>>
        ELSE IF \A i \in base..(last - 1) : path[i] = "." THEN <<>>
        ELSE SubSeq(path, last, Len(path))

\* os.path.join(output, rel_path)
Output == <<"o", "u", "t">>
OutputPath(rel_path) == Output \o <<"/">> \o rel_path

\* f"{output_path}/{func.start_line}{file_ext}"
FuncOutputPath(output_path, f, file_ext) ==
    output_path \o <<"/">> \o Decimal(f.start_line) \o file_ext

\* for func in funcs: open(func_output_path, "wb").write(func.code_bytes)
RECURSIVE WriteFuncs(_, _, _, _)
WriteFuncs(files, funcs, output_path, file_ext) ==
    IF funcs = <<>> THEN files
    ELSE WriteFuncs(Put(files, FuncOutputPath(output_path, Head(funcs), file_ext),
                        Head(funcs).code_bytes),
                    Tail(funcs), output_path, file_ext)

\* the rows on which the functions of a file start, in document order
StartRows ==
    { rows \in SeqsUpTo(0..MaxRow, MaxFuncs) :
        \A i \in 1..(Len(rows) - 1) : rows[i] <= rows[i + 1] }

\* a file of the tree: its path, what linguist says, and the functions
\* extract_functions finds in it, each with a text of its own
SourceFile(rel_path, l, rows) ==
    [rel_path |-> rel_path, lang |-> l,
     funcs |-> [k \in 1..Len(rows) |->
                  [start_line |-> rows[k],
                   code_bytes |-> rel_path \o <<"#">> \o Decimal(k)]]]

SrcLangs == {"C", "C++", "Java"}

Walks ==
    { << SourceFile(<<"a", ".", "c">>, "C", r1),
         SourceFile(<<"r", ".", "m", "d">>, "Markdown", <<>>),
         SourceFile(<<"d", "/", "b", ".", "j", "a", "v", "a">>, "Java", r2),
         SourceFile(<<"k", ".", "c", "c">>, "C++", r3) >> : r1 \in StartRows, r2 \in StartRows, r3 \in StartRows }

InitBatch ==
    /\ lang = "C"
    /\ src = SampleSrc
    /\ caps = SampleCaps
    /\ ret = NoCall
    /\ IdleRegistry
    /\ IdleScope
    /\ IdleStrip
    /\ IdleEq
    /\ IdleAbs
    /\ \E w \in Walks :
         batch = [status |-> "running", walk |-> w, at |-> 1,
                  dirs |-> {}, files |-> {}, printed |-> <<>>]
    /\ IdleExtract
    /\ IdleLru
    /\ IdleVuddy

BatchFrame == UNCHANGED <<varsCapture, varsScope, varsStrip, varsEq, varsAbs, varsExtract, varsLru, varsVuddy>>

\* traverse_src_files passes over a file that is not C, C++ or Java
ExplodeSkip ==
    /\ batch.status = "running" /\ batch.at <= Len(batch.walk)
    /\ batch.walk[batch.at].lang \notin SrcLangs
    /\ batch' = [batch EXCEPT !.at = batch.at + 1]
    /\ UNCHANGED <<lang, varsRegistry>>
    /\ BatchFrame

\* the TimeoutError is not caught and ends explode
Mut_TimeoutAborts(b) == [b EXCEPT !.status = "TimeoutError"]

\* extract_functions raises TimeoutError: print, continue
Timeout(b) ==
    [b EXCEPT !.printed = Append(b.printed, b.walk[b.at].rel_path), !.at = b.at + 1]

ExplodeTimeout ==
    /\ batch.status = "running" /\ batch.at <= Len(batch.walk)
    /\ batch.walk[batch.at].lang \in SrcLangs
    /\ batch' = Timeout(batch)
    /\ lang' = batch.walk[batch.at].lang
    /\ reg' \in {parse_ast(reg, lang').reg, extract_functions(reg, lang').reg}
    /\ UNCHANGED outcome
    /\ BatchFrame

\* extract_functions returns: makedirs, then one write per function
ExplodeFile ==
    /\ batch.status = "running" /\ batch.at <= Len(batch.walk)
    /\ batch.walk[batch.at].lang \in SrcLangs
    /\ LET file == batch.walk[batch.at]
           output_path == OutputPath(file.rel_path)
       IN  batch' = [batch EXCEPT
                       !.dirs = batch.dirs \cup {output_path},
                       !.files = WriteFuncs(batch.files, file.funcs, output_path,
                                            SplitExt(file.rel_path)),
                       !.at = batch.at + 1]
    /\ lang' = batch.walk[batch.at].lang
    /\ reg' = extract_functions(reg, lang').reg
    /\ UNCHANGED outcome
    /\ BatchFrame

\* the walk is exhausted
ExplodeReturn ==
    /\ batch.status = "running" /\ batch.at > Len(batch.walk)
    /\ batch' = [batch EXCEPT !.status = "returned"]
    /\ UNCHANGED <<lang, varsRegistry>>
    /\ BatchFrame

NextBatch == ExplodeSkip \/ ExplodeTimeout \/ ExplodeFile \/ ExplodeReturn

SpecBatch == InitBatch /\ [][NextBatch]_vars

\* the source files of the walk whose extraction did not time out
Extracted ==
    { i \in 1..Len(batch.walk) :
        /\ batch.walk[i].lang \in SrcLangs
        /\ \A k \in 1..Len(batch.printed) : batch.printed[k] # batch.walk[i].rel_path }

\* the artifacts below the output directory of file i
ArtifactsOf(i) ==
    { e \in batch.files : StartsWith(e[1], OutputPath(batch.walk[i].rel_path) \o <<"/">>) }

(***************************************************************************)
(* C15: after explode, an extracted file with n functions has n artifacts  *)
(* below its output directory, one per function, each named by the         *)
(* function's start line and the extension of the file and holding the     *)
(* function's code bytes.                                                  *)
(***************************************************************************)
C15_OneArtifactPerFunction ==
    batch # NoCall /\ batch.status = "returned" =>
        \A i \in Extracted :
            LET file == batch.walk[i]
            IN  /\ Cardinality(ArtifactsOf(i)) = Len(file.funcs)
                /\ \A k \in 1..Len(file.funcs) :
                      << OutputPath(file.rel_path) \o <<"/">>
                            \o Decimal(file.funcs[k].start_line) \o SplitExt(file.rel_path),
                         file.funcs[k].code_bytes >> \in batch.files

(***************************************************************************)
(* C16: a timeout while extracting a file never ends the walk: the file is *)
(* skipped with nothing written for it, and every other source file of the *)
(* walk, before or after it, gets its output directory and an artifact at  *)
(* the path of each of its functions.                                      *)
(***************************************************************************)
TimedOut ==
    { i \in 1..Len(batch.walk) :
        \E k \in 1..Len(batch.printed) : batch.printed[k] = batch.walk[i].rel_path }

C16_TimeoutIsolated ==
    batch # NoCall =>
        /\ batch.status \in {"running", "returned"}
        /\ \A i \in TimedOut :
              /\ OutputPath(batch.walk[i].rel_path) \notin batch.dirs
              /\ ArtifactsOf(i) = {}
        /\ batch.status = "returned" =>
              \A i \in Extracted :
                  /\ OutputPath(batch.walk[i].rel_path) \in batch.dirs
                  /\ \A k \in 1..Len(batch.walk[i].funcs) :
                        \E e \in ArtifactsOf(i) :
                            e[1] = FuncOutputPath(OutputPath(batch.walk[i].rel_path),
                                                  batch.walk[i].funcs[k],
                                                  SplitExt(batch.walk[i].rel_path))

\* the walk returned; the second source file timed out, the first and the
\* last were written
C16_Witness ==
    /\ batch # NoCall
    /\ batch.status = "returned"
    /\ batch.printed = <<batch.walk[3].rel_path>>
    /\ batch.walk[3].funcs # <<>>
    /\ ArtifactsOf(1) # {}
    /\ ArtifactsOf(4) # {}

(***************************************************************************)
(* extract_ast_functions: the captures of capture_function_definitions,    *)
(* each made a Func with the next index, those with a parse error left out *)
(* when keep_error_node is False.  A node has an error when an ERROR node  *)
(* lies in its range; errors is the set of offsets that hold one.          *)
(***************************************************************************)
has_error(node, errors) ==
    \E o \in errors : node.start_byte <= o /\ o < node.end_byte

InitExtract ==
    /\ lang = "C"
    /\ src \in [1..MaxByte -> {<<"i","n","t">>, <<"i","f">>}]
    /\ \E S \in SUBSET Spans :
         /\ Cardinality(S) <= MaxCaps
         /\ TreeLike(S)
         /\ caps = DocOrder(S)
    /\ ret = NoCall
    /\ IdleRegistry
    /\ IdleScope
    /\ IdleStrip
    /\ IdleEq
    /\ IdleAbs
    /\ IdleBatch
    /\ \E keep \in BOOLEAN : \E errors \in SUBSET (0..(MaxByte - 1)) :
         extraction = [status |-> "called", keep_error_node |-> keep,
                       errors |-> errors, captures |-> <<>>, at |-> 1,
                       functions |-> <<>>, func_seq |-> 0]
    /\ IdleLru
    /\ IdleVuddy

ExtractFrame ==
    UNCHANGED <<lang, varsCapture, varsRegistry, varsScope, varsStrip, varsEq,
                varsAbs, varsBatch, varsLru, varsVuddy>>

\* captures = capture_function_definitions(tree.root_node, lang)
ExtractCall ==
    /\ extraction.status = "called"
    /\ LET c == capture_function_definitions(src, caps, lang)
       IN  extraction' =
             IF c.kind # "ok" THEN [extraction EXCEPT !.status = c.kind]
             ELSE [extraction EXCEPT !.status = "loop", !.captures = c.nodes]
    /\ ExtractFrame

\* every capture takes the next index, also one that is left out
Mut_ExtractNodeCountsAll(e) ==
    LET node == e.captures[e.at]
    IN  IF has_error(node, e.errors) /\ ~e.keep_error_node
        THEN [e EXCEPT !.at = e.at + 1, !.func_seq = e.func_seq + 1]
        ELSE [e EXCEPT !.at = e.at + 1, !.func_seq = e.func_seq + 1,
                       !.functions = Append(e.functions,
                          [lang |-> lang, idx |-> e.func_seq, node |-> node])]

\* one iteration of the loop over the captures
ExtractNode(e) ==
    LET node == e.captures[e.at]
    IN  IF has_error(node, e.errors) /\ ~e.keep_error_node
        THEN [e EXCEPT !.at = e.at + 1]
        ELSE [e EXCEPT !.at = e.at + 1, !.func_seq = e.func_seq + 1,
                       !.functions = Append(e.functions,
                          [lang |-> lang, idx |-> e.func_seq, node |-> node])]

ExtractLoop ==
    /\ extraction.status = "loop"
    /\ extraction.at <= Len(extraction.captures)
    /\ extraction' = ExtractNode(extraction)
    /\ ExtractFrame

ExtractReturn ==
    /\ extraction.status = "loop"
    /\ extraction.at > Len(extraction.captures)
    /\ extraction' = [extraction EXCEPT !.status = "returned"]
    /\ ExtractFrame

NextExtract == ExtractCall \/ ExtractLoop \/ ExtractReturn

SpecExtract == InitExtract /\ [][NextExtract]_vars

(***************************************************************************)
(* C17: the returned functions have the indices 0, 1, ..., n-1 in output   *)
(* order; with keep_error_node they are all the captures, without it they  *)
(* are the captures without a parse error, in the same order.              *)
(***************************************************************************)
C17_SequentialIndices ==
    (extraction # NoCall /\ extraction.status = "returned") =>
        LET fs == extraction.functions
            Clean(n) == ~has_error(n, extraction.errors)
            nodes == [k \in 1..Len(fs) |-> fs[k].node]
        IN  /\ \A k \in 1..Len(fs) : fs[k].idx = k - 1
            /\ extraction.keep_error_node => nodes = extraction.captures
            /\ ~extraction.keep_error_node =>
                  /\ nodes = SelectSeq(extraction.captures, Clean)
                  /\ \A k \in 1..Len(fs) : ~has_error(fs[k].node, extraction.errors)

\* a capture with a parse error was left out before one that was kept
C17_Witness ==
    /\ extraction # NoCall
    /\ extraction.status = "returned"
    /\ ~extraction.keep_error_node
    /\ Len(extraction.captures) >= 2
    /\ has_error(extraction.captures[1], extraction.errors)
    /\ Len(extraction.functions) >= 1

(***************************************************************************)
(* The registry under threads.  get_language, get_parser and get_query are *)
(* wrapped by lru_cache(): a call looks its key up under the cache lock    *)
(* and returns the cached object on a hit; on a miss it runs the body      *)
(* without the lock and then, under the lock again, adds its result unless *)
(* the key has been added meanwhile, and returns its own result.  The body *)
(* of get_parser and of get_query calls get_language.  An object is known  *)
(* by the thread that made it; a thread makes at most one per key.         *)
(***************************************************************************)
CacheThreads == {"t1", "t2"}
CacheLangs == {"C", "Java"}
CachedFunctions == {"get_language", "get_parser", "get_query"}

Object(fn, key, t) == [fn |-> fn, key |-> key, by |-> t]
Frame(fn, key) == [fn |-> fn, key |-> key, pc |-> "lookup", hit |-> FALSE, result |-> NoCall]

\* the arguments of the call: (lang) or (lang, query)
CacheKey(fn, l) ==
    IF fn = "get_query" THEN <<l, DefinitionQuery>> ELSE <<l>>

CachedEntries(c, fn, key) == {e \in c : e.fn = fn /\ e.key = key}

\* the result is stored whether or not the key is present
Mut_StoreAlways(c, obj) == c \cup {obj}

\* after the body: "if key in cache: pass" else the result is added
Store(c, obj) ==
    IF CachedEntries(c, obj.fn, obj.key) # {} THEN c ELSE c \cup {obj}

InitLru ==
    /\ lang = "C"
    /\ src = SampleSrc
    /\ caps = SampleCaps
    /\ ret = NoCall
    /\ IdleRegistry
    /\ IdleScope
    /\ IdleStrip
    /\ IdleEq
    /\ IdleAbs
    /\ IdleBatch
    /\ IdleExtract
    /\ lru = {}
    /\ callers = [t \in CacheThreads |-> <<>>]
    /\ IdleVuddy

LruFrame ==
    UNCHANGED <<lang, varsCapture, varsRegistry, varsScope, varsStrip, varsEq,
                varsAbs, varsBatch, varsExtract, varsVuddy>>

\* the frame on top of the stack of thread t, and the stack with it replaced
Top(t) == callers[t][Len(callers[t])]
WithTop(t, f) == [callers[t] EXCEPT ![Len(callers[t])] = f]

\* a thread with nothing in progress calls one of the three functions
LruCall(t) ==
    /\ callers[t] = <<>>
    /\ \E fn \in CachedFunctions : \E l \in CacheLangs :
         callers' = [callers EXCEPT ![t] = <<Frame(fn, CacheKey(fn, l))>>]
    /\ UNCHANGED lru
    /\ LruFrame

\* the lookup: a hit returns the cached object, a miss goes on to the body
LruLookup(t) ==
    /\ callers[t] # <<>>
    /\ Top(t).pc = "lookup"
    /\ LET f == Top(t)
           found == CachedEntries(lru, f.fn, f.key)
       IN  callers' = [callers EXCEPT ![t] =
             IF found # {}
             THEN WithTop(t, [f EXCEPT !.pc = "return", !.hit = TRUE,
                                       !.result = CHOOSE e \in found : TRUE])
             ELSE WithTop(t, [f EXCEPT !.pc = "body"])]
    /\ UNCHANGED lru
    /\ LruFrame

\* the body: get_language builds the Language; the other two call
\* get_language first
LruBody(t) ==
    /\ callers[t] # <<>>
    /\ Top(t).pc = "body"
    /\ LET f == Top(t)
       IN  callers' = [callers EXCEPT ![t] =
             IF f.fn = "get_language"
             THEN WithTop(t, [f EXCEPT !.pc = "store", !.result = Object(f.fn, f.key, t)])
             ELSE Append(WithTop(t, [f EXCEPT !.pc = "nested"]),
                         Frame("get_language", CacheKey("get_language", f.key[1])))]
    /\ UNCHANGED lru
    /\ LruFrame

\* under the lock again: add the result unless the key is there, return it
LruStore(t) ==
    /\ callers[t] # <<>>
    /\ Top(t).pc = "store"
    /\ lru' = Store(lru, Top(t).result)
    /\ callers' = [callers EXCEPT ![t] = WithTop(t, [Top(t) EXCEPT !.pc = "return"])]
    /\ LruFrame

\* the call returns: to the body that made it, or to the thread
LruReturn(t) ==
    /\ callers[t] # <<>>
    /\ Top(t).pc = "return"
    /\ LET below == SubSeq(callers[t], 1, Len(callers[t]) - 1)
       IN  callers' = [callers EXCEPT ![t] =
             IF below = <<>> THEN <<>>
             ELSE [below EXCEPT ![Len(below)] =
                     [below[Len(below)] EXCEPT !.pc = "store", !.result = Object(below[Len(below)].fn, below[Len(below)].key, t)]]]
    /\ UNCHANGED lru
    /\ LruFrame

NextLru ==
    \E t \in CacheThreads :
        LruCall(t) \/ LruLookup(t) \/ LruBody(t) \/ LruStore(t) \/ LruReturn(t)

SpecLru == InitLru /\ [][NextLru]_vars

(***************************************************************************)
(* C18: under any interleaving of the calls of two threads, a cache never  *)
(* holds two entries for a key; once a call for a key has returned there   *)
(* is exactly one; a hit returns the cached object; no body runs for a key *)
(* that is cached; and no entry, of any language, is ever removed or       *)
(* replaced.                                                               *)
(***************************************************************************)
OneEntryPerKey ==
    \A fn \in CachedFunctions : \A l \in CacheLangs :
        Cardinality(CachedEntries(lru, fn, CacheKey(fn, l))) <= 1

ReturnedIsCached ==
    \A t \in CacheThreads : \A k \in 1..Len(callers[t]) :
        LET f == callers[t][k]
        IN  f.pc = "return" =>
              /\ Cardinality(CachedEntries(lru, f.fn, f.key)) = 1
              /\ f.hit => f.result \in lru

\* a lookup that goes on to the body found no entry for its key
MissOnlyWhenAbsent ==
    \A t \in CacheThreads :
        (/\ callers[t] # <<>>
         /\ Top(t).pc = "lookup"
         /\ Len(callers'[t]) = Len(callers[t])
         /\ callers'[t][Len(callers[t])].pc = "body")
            => CachedEntries(lru, Top(t).fn, Top(t).key) = {}

C18_ReadThroughIdempotent ==
    /\ [](OneEntryPerKey /\ ReturnedIsCached)
    /\ [][lru \subseteq lru' /\ MissOnlyWhenAbsent]_vars

\* both threads loaded the C language; the entry is the one of t1, t2 is
\* about to return its own duplicate, and the Java entry is still cached
C18_Witness ==
    /\ Object("get_language", <<"C">>, "t1") \in lru
    /\ \E e \in lru : e.fn = "get_language" /\ e.key = <<"Java">>
    /\ callers["t2"] # <<>>
    /\ Top("t2").pc = "return"
    /\ Top("t2").result = Object("get_language", <<"C">>, "t2")

(***************************************************************************)
(* C19: a capture that lies in no other capture and whose first token is   *)
(* not one of the eight control-flow keywords is returned, also when the   *)
(* token merely starts with the letters of a keyword, as double does.      *)
(***************************************************************************)
C19_OnlyKeywordLedDropped ==
    ret.kind = "ok" =>
        \A i \in DOMAIN caps :
            (/\ ~\E j \in DOMAIN caps : j # i /\ RangeWithin(caps[i], caps[j])
             /\ src[caps[i].start_byte + 1] \notin ControlKeywords)
                => \E k \in DOMAIN ret.nodes : ret.nodes[k] = caps[i]

(***************************************************************************)
(* C20: under every choice of selectors, every identifier leaf after the   *)
(* declaration of a parameter or local variable that has the declared      *)
(* name emits the token the declaration emitted, in whatever position it   *)
(* is used, a call target included.                                        *)
(***************************************************************************)
C20_UseEmitsDeclaredToken ==
    (run # NoCall /\ run.status = "returned") =>
        \A d \in 1..Len(func) : \A i \in (d + 1)..Len(func) :
            (/\ IsDeclaration(d)
             /\ func[i].type = "identifier"
             /\ func[i].text = func[d].text
             /\ ~IsDeclaration(i)
             /\ ~IsFunctionName(i))
                => Token(i) = Token(d)

(***************************************************************************)
(* run_vuddy (src/vuddy.py): one (label, version), called again and again. *)
(* The exploded directory is the tree that explode writes: batch.dirs and  *)
(* batch.files; batch.status tells how the explode that wrote it ended.    *)
(* vuddy holds the position of the running call, whether the hidx file and *)
(* the result file are on disk, and what the last call returned.           *)
(***************************************************************************)

\* os.path.exists(exploded): explode creates the directory with the first
\* os.makedirs(output_path) below it
ExplodedExists == batch.dirs # {}

InitVuddy ==
    /\ lang = "C"
    /\ src = SampleSrc
    /\ caps = SampleCaps
    /\ ret = NoCall
    /\ IdleRegistry
    /\ IdleScope
    /\ IdleStrip
    /\ IdleEq
    /\ IdleAbs
    /\ \E w \in Walks :
         batch = [status |-> "absent", walk |-> w, at |-> 1,
                  dirs |-> {}, files |-> {}, printed |-> <<>>]
    /\ IdleExtract
    /\ IdleLru
    /\ vuddy = [pc |-> "idle", hidx |-> FALSE, output |-> FALSE, result |-> ""]

VuddyFrame == UNCHANGED <<lang, varsCapture, varsRegistry, varsScope, varsStrip, varsEq,
                          varsAbs, varsExtract, varsLru>>

\* run_vuddy is called: the result file exists, return; the exploded
\* directory does not exist, clone and explode; else go on to the hidx
VuddyCall ==
    /\ vuddy.pc = "idle"
    /\ IF vuddy.output
       THEN /\ vuddy' = [vuddy EXCEPT !.result = "None"]
            /\ UNCHANGED batch
       ELSE IF ~ExplodedExists
       THEN /\ vuddy' = [vuddy EXCEPT !.pc = "explode", !.result = ""]
            /\ batch' = [batch EXCEPT !.status = "running", !.at = 1, !.printed = <<>>]
       ELSE /\ vuddy' = [vuddy EXCEPT !.pc = "hidx", !.result = ""]
            /\ UNCHANGED batch
    /\ VuddyFrame

\* explode does not return: reading a source file, extract_functions or a
\* write raises, or the process is interrupted; run_vuddy catches nothing
\* and what explode has written stays where it is
VuddyExplodeRaises ==
    /\ vuddy.pc = "explode" /\ batch.status = "running"
    /\ batch' = [batch EXCEPT !.status = "raised"]
    /\ vuddy' = [vuddy EXCEPT !.pc = "idle", !.result = "raised"]
    /\ VuddyFrame

\* explode returned and the clone is removed
VuddyExploded ==
    /\ vuddy.pc = "explode" /\ batch.status = "returned"
    /\ vuddy' = [vuddy EXCEPT !.pc = "hidx"]
    /\ UNCHANGED batch
    /\ VuddyFrame

\* the hidx file exists: upload it. Else run_hmark(exploded): sp.call with
\* cwd=exploded raises when the directory is missing; the tool exits with 0
\* and leaves the hidx file, which patch_hidx rewrites, or exits with another
\* status and run_vuddy returns -1, or the tool is interrupted
VuddyHmark ==
    /\ vuddy.pc = "hidx"
    /\ IF vuddy.hidx
       THEN vuddy' = [vuddy EXCEPT !.pc = "upload"]
       ELSE IF ~ExplodedExists
       THEN vuddy' = [vuddy EXCEPT !.pc = "idle", !.result = "raised"]
       ELSE \/ vuddy' = [vuddy EXCEPT !.pc = "upload", !.hidx = TRUE]
            \/ vuddy' = [vuddy EXCEPT !.pc = "idle", !.result = "-1"]
            \/ vuddy' = [vuddy EXCEPT !.pc = "idle", !.result = "raised"]
    /\ UNCHANGED batch
    /\ VuddyFrame

\* upload_hidx: a status other than 0 and run_vuddy returns -2, a request
\* raises, or the result file is written
VuddyUpload ==
    /\ vuddy.pc = "upload"
    /\ \/ vuddy' = [vuddy EXCEPT !.pc = "idle", !.result = "-2"]
       \/ vuddy' = [vuddy EXCEPT !.pc = "idle", !.result = "raised"]
       \/ vuddy' = [vuddy EXCEPT !.pc = "idle", !.result = "None", !.output = TRUE]
    /\ UNCHANGED batch
    /\ VuddyFrame

NextVuddy ==
    \/ VuddyCall
    \/ ExplodeSkip \/ ExplodeTimeout \/ ExplodeFile \/ ExplodeReturn
    \/ VuddyExplodeRaises
    \/ VuddyExploded
    \/ VuddyHmark
    \/ VuddyUpload

SpecVuddy == InitVuddy /\ [][NextVuddy]_vars

\* run_vuddy is at the call of run_hmark over a directory that exists
RunsHmark == vuddy.pc = "hidx" /\ ~vuddy.hidx /\ ExplodedExists

(***************************************************************************)
(* C21: over any sequence of run_vuddy calls for one (label, version), in  *)
(* which explode, the hash tool and the upload may fail or be interrupted, *)
(* the hash tool is only run over an exploded directory written by an      *)
(* explode that ran to completion: a directory left behind by a failed     *)
(* explode is never reused by a later call.                                *)
(***************************************************************************)
C21_HmarkOnlyAfterCompleteExplode ==
    RunsHmark => batch.status = "returned"

\* the hash tool is run over what a complete explode wrote
C21_CompleteReached ==
    RunsHmark /\ batch.status = "returned"

\* the hash tool is about to run over a directory that lacks a source file
\* which a complete explode writes
C21_PartialReused ==
    /\ RunsHmark /\ batch.status = "raised"
    /\ \E i \in batch.at..Len(batch.walk) :
          /\ batch.walk[i].lang \in SrcLangs
          /\ OutputPath(batch.walk[i].rel_path) \notin batch.dirs

=============================================================================
